---- MODULE Spec2Model ----
(***************************************************************************)
(* Model of the tic-tac-toe board engine (GameBoard<LEN, COLS>) and of the *)
(* play_loop that drives it, from src/src/main.rs.                         *)
(*                                                                         *)
(* LEN and COLS are the const generic parameters of GameBoard.  main       *)
(* instantiates GameBoard::<9, 3>; the engine is generic, so the model     *)
(* draws (LEN, COLS) from a bounded set of instantiations.                 *)
(***************************************************************************)
EXTENDS Integers, Sequences, FiniteSets, TLC

\* ---- bounds of the model -------------------------------------------------
\* largest board length instantiated
MaxLen == 9
\* largest column count instantiated
MaxCols == 3
\* largest row / column coordinate a player types
MaxCoord == 3
\* longest input line a player types (characters before the newline)
MaxLineLen == 6

VARIABLES
    LEN,        \* const generic LEN of the instantiation
    COLS,       \* const generic COLS of the instantiation
    pc,         \* position of main: "start", "playing", "over", "aborted", "panicked"
    newRes,     \* result of GameBoard::new(): NotCalled, Ok, or Err(MalformedError)
    board,      \* GameBoard.board : [Spot; LEN], indexed 0..LEN-1
    player,     \* GameBoard.player
    turn,       \* play_loop's local `turn`
    callPos,    \* argument of the latest call of GameBoard::turn
    callRes,    \* what that call returned
    callBoard,  \* self.board when that call was entered
    callPlayer, \* self.player when that call was entered
    input,      \* player_input's `input`: the line read last, without its newline
    inputOut    \* where player_input is with it: "None" (nothing read), "Read",
                \* and once parsed "Return", "NeedBoth" or "CouldNot"

vars == <<LEN, COLS, pc, newRes, board, player, turn,
          callPos, callRes, callBoard, callPlayer, input, inputOut>>

\* ---- data types ----------------------------------------------------------
\* enum Player { X, O }
Player == {"X", "O"}

\* enum Piece { X, O }
Piece == {"X", "O"}

\* impl From<Player> for Piece
PieceFrom(p) == CASE p = "X" -> "X" [] p = "O" -> "O"

\* enum Spot { Empty, Occupied(Piece) }
Empty == <<"Empty", "-">>
Occupied(piece) == <<"Occupied", piece>>

\* enum Turn { Win(Player), Draw, Next }
Win(p) == <<"Win", p>>
Draw == <<"Draw", "-">>
NextTurn == <<"Next", "-">>

\* enum BoardError { OutOfBounds(Bound), Occupied }, enum Bound { Row, Col, Both }
OutOfBounds(bound) == <<"OutOfBounds", bound>>
OccupiedErr == <<"Occupied", "-">>

\* Result<T, E>, plus the two non-results: no call made yet, and a panic
Ok(v) == <<"Ok", v>>
Err(e) == <<"Err", e>>
NotCalled == <<"NotCalled", <<"-", "-">>>>
Panic == <<"Panic", <<"-", "-">>>>

\* the instantiations and the positions the model draws from
Configs == (0..MaxLen) \X (0..MaxCols)
Positions == (0..MaxCoord) \X (0..MaxCoord)

\* ---- GameBoard ------------------------------------------------------------
\* GameBoard::constraints
constraints ==
    IF COLS = 0 THEN Err(<<"ColsZero", "-">>)
    ELSE IF LEN = 0 THEN Err(<<"LenZero", "-">>)
    ELSE Ok(<<"Unit", "-">>)

\* convert_to_linear with row and column exchanged in the index
convert_to_linear_transposed(b, pos) ==
    LET rows == LEN \div COLS
        row_oob == pos[1] >= rows
        col_oob == pos[2] >= COLS
    IN  CASE row_oob /\ col_oob -> [ok |-> FALSE, idx |-> 0, bound |-> "Both"]
          [] row_oob /\ ~col_oob -> [ok |-> FALSE, idx |-> 0, bound |-> "Row"]
          [] ~row_oob /\ col_oob -> [ok |-> FALSE, idx |-> 0, bound |-> "Col"]
          [] ~row_oob /\ ~col_oob ->
                [ok |-> TRUE, idx |-> pos[1] + COLS * pos[2], bound |-> "-"]

\* convert_to_linear with > in place of >= in both bound tests
convert_to_linear_inclusive(b, pos) ==
    LET rows == LEN \div COLS
        row_oob == pos[1] > rows
        col_oob == pos[2] > COLS
    IN  CASE row_oob /\ col_oob -> [ok |-> FALSE, idx |-> 0, bound |-> "Both"]
          [] row_oob /\ ~col_oob -> [ok |-> FALSE, idx |-> 0, bound |-> "Row"]
          [] ~row_oob /\ col_oob -> [ok |-> FALSE, idx |-> 0, bound |-> "Col"]
          [] ~row_oob /\ ~col_oob ->
                [ok |-> TRUE, idx |-> pos[2] + COLS * pos[1], bound |-> "-"]

\* convert_to_linear with the Row and Col variants exchanged
convert_to_linear_swapped(b, pos) ==
    LET rows == LEN \div COLS
        row_oob == pos[1] >= rows
        col_oob == pos[2] >= COLS
    IN  CASE row_oob /\ col_oob -> [ok |-> FALSE, idx |-> 0, bound |-> "Both"]
          [] row_oob /\ ~col_oob -> [ok |-> FALSE, idx |-> 0, bound |-> "Col"]
          [] ~row_oob /\ col_oob -> [ok |-> FALSE, idx |-> 0, bound |-> "Row"]
          [] ~row_oob /\ ~col_oob ->
                [ok |-> TRUE, idx |-> pos[2] + COLS * pos[1], bound |-> "-"]

\* GameBoard::convert_to_linear; pos = <<row, col>>; Ok carries the index
convert_to_linear(b, pos) ==
    LET rows == LEN \div COLS
        row_oob == pos[1] >= rows
        col_oob == pos[2] >= COLS
    IN  CASE row_oob /\ col_oob -> [ok |-> FALSE, idx |-> 0, bound |-> "Both"]
          [] row_oob /\ ~col_oob -> [ok |-> FALSE, idx |-> 0, bound |-> "Row"]
          [] ~row_oob /\ col_oob -> [ok |-> FALSE, idx |-> 0, bound |-> "Col"]
          [] ~row_oob /\ ~col_oob ->
                [ok |-> TRUE, idx |-> pos[2] + COLS * pos[1], bound |-> "-"]

\* set_piece writing the piece before it looks at the spot
set_piece_overwrite(b, p, pos) ==
    LET lin == convert_to_linear(b, pos)
    IN  IF ~lin.ok THEN [board |-> b, idx |-> 0, res |-> Err(OutOfBounds(lin.bound))]
        ELSE IF lin.idx \notin DOMAIN b THEN [board |-> b, idx |-> lin.idx, res |-> Panic]
        ELSE IF b[lin.idx] = Empty
             THEN [board |-> [b EXCEPT ![lin.idx] = Occupied(PieceFrom(p))],
                   idx |-> lin.idx, res |-> Ok(<<"Idx", "-">>)]
             ELSE [board |-> [b EXCEPT ![lin.idx] = Occupied(PieceFrom(p))],
                   idx |-> lin.idx, res |-> Err(OccupiedErr)]

\* GameBoard::set_piece: the board after the call and its result.
\* res is Ok(<<"Idx", idx>>), Err(..) or Panic (the expect on get_mut).
set_piece(b, p, pos) ==
    LET lin == convert_to_linear(b, pos)
    IN  IF ~lin.ok THEN [board |-> b, idx |-> 0, res |-> Err(OutOfBounds(lin.bound))]
        ELSE IF lin.idx \notin DOMAIN b THEN [board |-> b, idx |-> lin.idx, res |-> Panic]
        ELSE IF b[lin.idx] = Empty
             THEN [board |-> [b EXCEPT ![lin.idx] = Occupied(PieceFrom(p))],
                   idx |-> lin.idx, res |-> Ok(<<"Idx", "-">>)]
             ELSE [board |-> b, idx |-> lin.idx, res |-> Err(OccupiedErr)]

\* the slice self.board[start..end] of check_horizontal is out of range
horizontal_panics(idx) == ((idx \div COLS) * COLS) + COLS > LEN

\* GameBoard::check_horizontal
check_horizontal(b, p, idx) ==
    LET start == (idx \div COLS) * COLS
        end == start + COLS
    IN  \A n \in start..(end - 1) : Occupied(PieceFrom(p)) = b[n]

\* GameBoard::streak_line; the closure f is passed as the function
\* [n \in DOMAIN b |-> f(n)] of the indices it is applied to
streak_line(b, p, f) ==
    \A n \in DOMAIN b : f[n] => Occupied(PieceFrom(p)) = b[n]

\* check_vertical comparing quotients instead of remainders
check_vertical_quotient(b, p, idx) ==
    LET quotient(n) == n \div COLS
        same_col(n) == quotient(n) = quotient(idx)
    IN  streak_line(b, p, [n \in DOMAIN b |-> same_col(n)])

\* GameBoard::check_vertical
check_vertical(b, p, idx) ==
    LET remainder(n) == n % COLS
        same_col(n) == remainder(n) = remainder(idx)
    IN  streak_line(b, p, [n \in DOMAIN b |-> same_col(n)])

\* is_squared comparing the length with twice the column count
is_squared_double == COLS * 2 = LEN

\* GameBoard::is_squared
is_squared == COLS * COLS = LEN

\* in_primary with the stride of a column instead of a diagonal
in_primary_stride(idx) == idx % COLS = 0

\* GameBoard::in_primary
in_primary(idx) == idx % (COLS + 1) = 0

\* GameBoard::in_secondary
in_secondary(idx) == idx % (COLS - 1) = 0

\* GameBoard::in_center
in_center(idx) == in_primary(idx) /\ in_secondary(idx)

\* GameBoard::check_diagonal
check_diagonal(b, p, diag) ==
    CASE diag = "Primary" -> streak_line(b, p, [n \in DOMAIN b |-> in_primary(n)])
      [] diag = "Secondary" -> streak_line(b, p, [n \in DOMAIN b |-> in_secondary(n)])
      [] diag = "Both" ->
            \/ streak_line(b, p, [n \in DOMAIN b |-> in_primary(n)])
            \/ streak_line(b, p, [n \in DOMAIN b |-> in_secondary(n)])

\* GameBoard::check_diagonals
check_diagonals(b, p, idx) ==
    IF ~is_squared THEN FALSE
    ELSE IF in_center(idx) THEN check_diagonal(b, p, "Both")
    ELSE IF in_primary(idx) THEN check_diagonal(b, p, "Primary")
    ELSE IF in_secondary(idx) THEN check_diagonal(b, p, "Secondary")
    ELSE FALSE

\* check_diagonals divides by zero: past the is_squared test in_secondary is
\* evaluated on every path (by in_center when in_primary holds, by the last
\* else-if otherwise), and idx % (COLS - 1) panics when COLS = 1
diagonals_panic(idx) == is_squared /\ COLS = 1

\* GameBoard::check_win (|| evaluates left to right and stops at the first true)
check_win(b, p, idx) ==
    check_horizontal(b, p, idx) \/ check_vertical(b, p, idx) \/ check_diagonals(b, p, idx)

\* check_win panics: in the row slice, or in the diagonal tests when reached
check_win_panics(b, p, idx) ==
    \/ horizontal_panics(idx)
    \/ /\ ~check_horizontal(b, p, idx)
       /\ ~check_vertical(b, p, idx)
       /\ diagonals_panic(idx)

\* check_draw with any in place of all
check_draw_any(b) == \E n \in DOMAIN b : Empty # b[n]

\* GameBoard::check_draw
check_draw(b) == \A n \in DOMAIN b : Empty # b[n]

\* toggle_player with the O arm leaving the player as it is
toggle_player_stuck(p) == CASE p = "O" -> "O" [] p = "X" -> "O"

\* GameBoard::toggle_player
toggle_player(p) == CASE p = "O" -> "X" [] p = "X" -> "O"

\* turn toggling the player before set_piece's error is propagated
turn_fn_toggle_first(b, p, pos) ==
    LET sp == set_piece(b, p, pos)
    IN  IF sp.res[1] # "Ok"
        THEN [board |-> sp.board, player |-> toggle_player(p), res |-> sp.res]
        ELSE IF check_win_panics(sp.board, p, sp.idx)
             THEN [board |-> sp.board, player |-> p, res |-> Panic]
        ELSE IF check_win(sp.board, p, sp.idx)
             THEN [board |-> sp.board, player |-> p, res |-> Ok(Win(p))]
        ELSE IF check_draw(sp.board)
             THEN [board |-> sp.board, player |-> p, res |-> Ok(Draw)]
        ELSE [board |-> sp.board, player |-> toggle_player(p), res |-> Ok(NextTurn)]

\* GameBoard::turn as a function of self = (b, p) and pos:
\* the board and player after the call, and the returned value
turn_fn(b, p, pos) ==
    LET sp == set_piece(b, p, pos)
    IN  IF sp.res[1] # "Ok" THEN [board |-> sp.board, player |-> p, res |-> sp.res]
        ELSE IF check_win_panics(sp.board, p, sp.idx)
             THEN [board |-> sp.board, player |-> p, res |-> Panic]
        ELSE IF check_win(sp.board, p, sp.idx)
             THEN [board |-> sp.board, player |-> p, res |-> Ok(Win(p))]
        ELSE IF check_draw(sp.board)
             THEN [board |-> sp.board, player |-> p, res |-> Ok(Draw)]
        ELSE [board |-> sp.board, player |-> toggle_player(p), res |-> Ok(NextTurn)]

\* ---- the program ----------------------------------------------------------
Init ==
    /\ \E cfg \in Configs : LEN = cfg[1] /\ COLS = cfg[2]
    /\ pc = "start"
    /\ newRes = NotCalled
    /\ board = [n \in {} |-> Empty]
    /\ player = "X"
    /\ turn = NextTurn
    /\ callPos = <<0, 0>>
    /\ callRes = NotCalled
    /\ callBoard = [n \in {} |-> Empty]
    /\ callPlayer = "X"
    /\ input = <<>>
    /\ inputOut = "None"

\* main: GameBoard::<LEN, COLS>::new().expect(..), then play_loop is entered
New ==
    /\ pc = "start"
    /\ newRes' = constraints
    /\ IF constraints[1] = "Ok"
       THEN /\ board' = [n \in 0..(LEN - 1) |-> Empty]
            /\ player' = "X"
            /\ pc' = "playing"
       ELSE /\ pc' = "aborted"
            /\ UNCHANGED <<board, player>>
    /\ turn' = NextTurn
    /\ UNCHANGED <<LEN, COLS, callPos, callRes, callBoard, callPlayer>>
    /\ UNCHANGED <<input, inputOut>>

\* one call board.turn(pos), t being turn_fn(board, player, pos): what the
\* call does to the GameBoard
TurnCall(pos, t) ==
    /\ board' = t.board
    /\ player' = t.player
    /\ callPos' = pos
    /\ callRes' = t.res
    /\ callBoard' = board
    /\ callPlayer' = player

\* one iteration of the while loop of play_loop, pos being what player_input
\* returned; the loop is left when turn is no longer Next
PlayLoop(pos) ==
    /\ pc = "playing"
    /\ turn = NextTurn
    /\ \E t \in {turn_fn(board, player, pos)} :
           /\ TurnCall(pos, t)
           /\ IF t.res = Panic
              THEN pc' = "panicked" /\ turn' = turn
              ELSE IF t.res[1] = "Ok" /\ t.res[2] # NextTurn
              THEN pc' = "over" /\ turn' = t.res[2]
              ELSE pc' = pc /\ turn' = turn
    /\ UNCHANGED <<LEN, COLS, newRes>>

\* a caller of the engine that, unlike play_loop, goes on calling turn after
\* Win or Draw: only the engine decides what a call does.  `turn` keeps the
\* first Win or Draw that was returned, as play_loop's local does.
EngineTurn(pos) ==
    /\ pc = "playing"
    /\ \E t \in {turn_fn(board, player, pos)} :
           /\ TurnCall(pos, t)
           /\ pc' = IF t.res = Panic THEN "panicked" ELSE pc
           /\ turn' = IF turn = NextTurn /\ t.res[1] = "Ok" /\ t.res[2] # NextTurn
                      THEN t.res[2] ELSE turn
    /\ UNCHANGED <<LEN, COLS, newRes>>

\* in Spec, SpecEngine and Spec4x4 the position is drawn directly and the line
\* it was typed as is left out
Next == New \/ \E pos \in Positions : PlayLoop(pos) /\ UNCHANGED <<input, inputOut>>

Spec == Init /\ [][Next]_vars

NextEngine ==
    New \/ \E pos \in Positions : EngineTurn(pos) /\ UNCHANGED <<input, inputOut>>

SpecEngine == Init /\ [][NextEngine]_vars

\* the instantiation GameBoard::<16, 4>, the smallest square board on which
\* in_secondary selects cells of the primary diagonal that in_center accepts
\* as well (the corners 0 and 15)
Init4x4 ==
    /\ LEN = 16 /\ COLS = 4
    /\ pc = "start"
    /\ newRes = NotCalled
    /\ board = [n \in {} |-> Empty]
    /\ player = "X"
    /\ turn = NextTurn
    /\ callPos = <<0, 0>>
    /\ callRes = NotCalled
    /\ callBoard = [n \in {} |-> Empty]
    /\ callPlayer = "X"
    /\ input = <<>>
    /\ inputOut = "None"

\* the positions the players of the 4x4 game type: the secondary diagonal,
\* the two corners of the primary diagonal, and five cells of rows 0 and 1
Positions4x4 ==
    { <<0, 3>>, <<1, 2>>, <<2, 1>>, <<3, 0>>, <<0, 0>>, <<3, 3>>,
      <<0, 1>>, <<0, 2>>, <<1, 0>>, <<1, 1>>, <<1, 3>> }

Next4x4 ==
    New \/ \E pos \in Positions4x4 : PlayLoop(pos) /\ UNCHANGED <<input, inputOut>>

Spec4x4 == Init4x4 /\ [][Next4x4]_vars

\* ---- player_input -----------------------------------------------------------
\* a line is a sequence of one-character strings

\* the characters the players type
Alphabet == {" ", "1", "x", "+"}

\* the lines the players type
Lines == UNION {[1..n -> Alphabet] : n \in 0..MaxLineLen}

\* char::is_whitespace, on the characters of Alphabet
is_whitespace(ch) == ch = " "

\* char::to_digit(10)
is_digit(ch) == ch \in {"0", "1", "2", "3", "4", "5", "6", "7", "8", "9"}
to_digit(ch) ==
    CASE ch = "0" -> 0 [] ch = "1" -> 1 [] ch = "2" -> 2 [] ch = "3" -> 3
      [] ch = "4" -> 4 [] ch = "5" -> 5 [] ch = "6" -> 6 [] ch = "7" -> 7
      [] ch = "8" -> 8 [] ch = "9" -> 9

\* str::trim: leading and trailing whitespace removed
RECURSIVE trim_start(_)
trim_start(str) ==
    IF str # <<>> /\ is_whitespace(Head(str)) THEN trim_start(Tail(str)) ELSE str

RECURSIVE trim_end(_)
trim_end(str) ==
    IF str # <<>> /\ is_whitespace(str[Len(str)])
    THEN trim_end(SubSeq(str, 1, Len(str) - 1)) ELSE str

trim(str) == trim_end(trim_start(str))

\* str::split_whitespace: the maximal runs of non-whitespace characters, in
\* order; cur is the run being read, acc the runs read so far
RECURSIVE split_whitespace_from(_, _, _)
split_whitespace_from(str, cur, acc) ==
    IF str = <<>> THEN (IF cur = <<>> THEN acc ELSE Append(acc, cur))
    ELSE IF is_whitespace(Head(str))
         THEN split_whitespace_from(Tail(str), <<>>,
                                    IF cur = <<>> THEN acc ELSE Append(acc, cur))
         ELSE split_whitespace_from(Tail(str), Append(cur, Head(str)), acc)

split_whitespace(str) == split_whitespace_from(str, <<>>, <<>>)

\* the value of a sequence of decimal digits, most significant first
RECURSIVE digits_value(_, _)
digits_value(digits, acc) ==
    IF digits = <<>> THEN acc
    ELSE digits_value(Tail(digits), acc * 10 + to_digit(Head(digits)))

\* usize::from_str_radix(s, 10): an optional '+', then one or more digits.
\* A line of MaxLineLen characters holds no number near usize::MAX, so the
\* overflow error does not arise.
from_str_radix(str) ==
    LET digits == IF str # <<>> /\ Head(str) = "+" THEN Tail(str) ELSE str
    IN  IF digits = <<>> \/ \E i \in 1..Len(digits) : ~is_digit(digits[i])
        THEN [ok |-> FALSE, val |-> 0]
        ELSE [ok |-> TRUE, val |-> digits_value(digits, 0)]

\* .filter_map(|s| usize::from_str_radix(s, 10).ok()) over the tokens
RECURSIVE filter_map_parse(_)
filter_map_parse(tokens) ==
    IF tokens = <<>> THEN <<>>
    ELSE LET r == from_str_radix(Head(tokens))
         IN  IF r.ok THEN <<r.val>> \o filter_map_parse(Tail(tokens))
             ELSE filter_map_parse(Tail(tokens))

\* .take(2)
take2(seq) == IF Len(seq) > 2 THEN SubSeq(seq, 1, 2) ELSE seq

\* player_input with the first two numbers returned in the other order
player_input_swapped(line) ==
    LET matches == take2(filter_map_parse(split_whitespace(trim(line))))
    IN  IF Len(matches) >= 2
        THEN [out |-> "Return", pos |-> <<matches[2], matches[1]>>]
        ELSE IF Len(matches) = 1 THEN [out |-> "NeedBoth", pos |-> <<0, 0>>]
        ELSE [out |-> "CouldNot", pos |-> <<0, 0>>]

\* one iteration of the loop of player_input on the line read: it returns
\* the position, or prints one of the two messages and prompts again
player_input(line) ==
    LET matches == take2(filter_map_parse(split_whitespace(trim(line))))
    IN  IF Len(matches) >= 2
        THEN [out |-> "Return", pos |-> <<matches[1], matches[2]>>]
        ELSE IF Len(matches) = 1 THEN [out |-> "NeedBoth", pos |-> <<0, 0>>]
        ELSE [out |-> "CouldNot", pos |-> <<0, 0>>]

\* main's instantiation: const COLS: usize = 3; const LEN: usize = 9
MainCols == 3
MainLen == 9

InitMain ==
    /\ LEN = MainLen /\ COLS = MainCols
    /\ pc = "start"
    /\ newRes = NotCalled
    /\ board = [n \in {} |-> Empty]
    /\ player = "X"
    /\ turn = NextTurn
    /\ callPos = <<0, 0>>
    /\ callRes = NotCalled
    /\ callBoard = [n \in {} |-> Empty]
    /\ callPlayer = "X"
    /\ input = <<>>
    /\ inputOut = "None"

\* player_input up to read_line: the prompt is printed, input is a new empty
\* String, and read_line blocks until the player has typed a line
Prompt ==
    /\ pc = "playing"
    /\ turn = NextTurn
    /\ inputOut \in {"Return", "NeedBoth", "CouldNot"}
    /\ input' = <<>>
    /\ inputOut' = "None"
    /\ UNCHANGED <<LEN, COLS, pc, newRes, board, player, turn,
                   callPos, callRes, callBoard, callPlayer>>

\* read_line returns with the line the player typed
ReadLine ==
    /\ pc = "playing"
    /\ turn = NextTurn
    /\ inputOut = "None"
    /\ \E line \in Lines : input' = line
    /\ inputOut' = "Read"
    /\ UNCHANGED <<LEN, COLS, pc, newRes, board, player, turn,
                   callPos, callRes, callBoard, callPlayer>>

\* the rest of the iteration: the line is parsed; if player_input returns,
\* play_loop goes on to board.turn(pos) and the rest of its own iteration,
\* otherwise player_input prints its message and loops
ParseLine ==
    /\ pc = "playing"
    /\ turn = NextTurn
    /\ inputOut = "Read"
    /\ \E r \in {player_input(input)} :
          /\ input' = input
          /\ inputOut' = r.out
          /\ IF r.out = "Return"
             THEN PlayLoop(r.pos)
             ELSE UNCHANGED <<LEN, COLS, pc, newRes, board, player, turn,
                              callPos, callRes, callBoard, callPlayer>>

NextInput == New \/ Prompt \/ ReadLine \/ ParseLine

SpecInput == InitMain /\ [][NextInput]_vars

\* ---- geometry of the board, in (row, col) coordinates ---------------------
\* the board is laid out row by row (Display prints chunks of COLS cells)
RowOf(n) == n \div COLS
ColOf(n) == n % COLS

\* number of whole rows
Rows == LEN \div COLS

\* pos names a cell of the board
InBounds(pos) == pos[1] < Rows /\ pos[2] < COLS

\* the cell pos names
CellIndex(pos) == pos[1] * COLS + pos[2]

\* every cell of row r / column c / a diagonal of b holds a piece of p
RowFull(b, p, r) == \A n \in DOMAIN b : RowOf(n) = r => b[n] = Occupied(p)
ColFull(b, p, c) == \A n \in DOMAIN b : ColOf(n) = c => b[n] = Occupied(p)
PrimaryFull(b, p) == \A n \in DOMAIN b : RowOf(n) = ColOf(n) => b[n] = Occupied(p)
SecondaryFull(b, p) ==
    \A n \in DOMAIN b : RowOf(n) + ColOf(n) = COLS - 1 => b[n] = Occupied(p)

\* the number of cells of b that hold v
Count(b, v) == Cardinality({n \in DOMAIN b : b[n] = v})

\* the latest call of turn was accepted (returned Ok)
Accepted == callRes[1] = "Ok"

\* a board of 9 cells with X on the cells xs and O on the cells os
Board9(xs, os) ==
    [n \in 0..8 |-> IF n \in xs THEN Occupied("X")
                    ELSE IF n \in os THEN Occupied("O") ELSE Empty]

\* ---- claims ---------------------------------------------------------------

\* C1: on a square board with COLS >= 2, an accepted turn on the secondary
\* diagonal (row + col = COLS - 1) after which every cell of that diagonal
\* holds the mover's piece returns Ok(Win(mover)).
C1_SecondaryDiagonalWins ==
    (/\ Accepted
     /\ is_squared /\ COLS >= 2
     /\ callPos[1] + callPos[2] = COLS - 1
     /\ SecondaryFull(board, callPlayer))
        => callRes = Ok(Win(callPlayer))

\* the moves of the 3x3 scenario of C2, and the board after the first k of them
C2Moves == << <<0, 0>>, <<1, 1>>, <<0, 1>>, <<1, 0>>, <<0, 2>> >>
C2Board(k) ==
    Board9({CellIndex(C2Moves[i]) : i \in {j \in 1..k : j % 2 = 1}},
           {CellIndex(C2Moves[i]) : i \in {j \in 1..k : j % 2 = 0}})

\* C2: an accepted turn after which the whole row of pos, or the whole column
\* of pos, holds the mover's piece returns Ok(Win(mover)); on the 3x3 board
\* the moves (0,0),(1,1),(0,1),(1,0),(0,2) return Next four times, then Win(X).
C2_RowOrColumnWins ==
    /\ (Accepted /\ (\/ RowFull(board, callPlayer, callPos[1])
                     \/ ColFull(board, callPlayer, callPos[2])))
          => callRes = Ok(Win(callPlayer))
    /\ \A k \in 1..5 :
          (/\ LEN = 9 /\ COLS = 3
           /\ callRes[1] # "NotCalled"
           /\ callBoard = C2Board(k - 1)
           /\ callPos = C2Moves[k])
              => /\ board = C2Board(k)
                 /\ callRes = IF k < 5 THEN Ok(NextTurn) ELSE Ok(Win("X"))

\* C2 witness: the scenario has been played to its last move, which filled
\* the top row
C2_Witness ==
    /\ LEN = 9 /\ COLS = 3
    /\ board = C2Board(5)
    /\ callPos = <<0, 2>>
    /\ RowFull(board, "X", 0)
    /\ callRes = Ok(Win("X"))

\* C3: on a square board an accepted turn with row = col after which the
\* whole primary diagonal holds the mover's piece returns Ok(Win(mover)); on
\* the 3x3 board X's third move wins when X holds (0,0), (1,1), (2,2).
C3_PrimaryDiagonalWins ==
    /\ (/\ Accepted
        /\ is_squared
        /\ callPos[1] = callPos[2]
        /\ PrimaryFull(board, callPlayer))
          => callRes = Ok(Win(callPlayer))
    /\ (/\ Accepted
        /\ LEN = 9 /\ COLS = 3
        /\ callPlayer = "X"
        /\ Count(board, Occupied("X")) = 3
        /\ board[0] = Occupied("X") /\ board[4] = Occupied("X")
        /\ board[8] = Occupied("X"))
          => callRes = Ok(Win("X"))

\* C3 witness: X's third move, at (1,1), completes the primary diagonal
\* while O holds two cells off it
C3_Witness ==
    /\ LEN = 9 /\ COLS = 3
    /\ Accepted
    /\ callPos = <<1, 1>>
    /\ callPlayer = "X"
    /\ board = Board9({0, 4, 8}, {1, 5})
    /\ callRes = Ok(Win("X"))

\* C4: once turn has returned Ok(Win(p)) or Ok(Draw), no later call of turn
\* on the same board places a piece, changes the current player or returns Ok.
C4_WinAndDrawTerminal ==
    [][turn # NextTurn =>
          /\ board' = board
          /\ player' = player
          /\ callRes'[1] # "Ok"]_vars

\* C5: new succeeds exactly when LEN > 0, COLS > 0 and LEN % COLS = 0, so
\* every constructed board is a whole number of rows of COLS cells.
C5_NewChecksDivisibility ==
    newRes[1] # "NotCalled" =>
        (newRes[1] = "Ok" <=> (LEN > 0 /\ COLS > 0 /\ LEN % COLS = 0))

\* C6: turn(pos) with pos in bounds and the target cell occupied, by either
\* player's piece, returns Err(Occupied) and leaves every cell as it was.
C6_OccupiedRejected ==
    /\ (/\ callRes[1] # "NotCalled"
        /\ InBounds(callPos)
        /\ callBoard[CellIndex(callPos)] # Empty)
          => /\ callRes = Err(OccupiedErr)
             /\ board = callBoard
    /\ callRes = Err(OccupiedErr)
          => /\ InBounds(callPos)
             /\ callBoard[CellIndex(callPos)] # Empty
             /\ board = callBoard

\* C6 witness: the mover was refused a cell that holds the other player's piece
C6_Witness ==
    /\ callRes = Err(OccupiedErr)
    /\ InBounds(callPos)
    /\ callBoard[CellIndex(callPos)] = Occupied(PieceFrom(toggle_player(callPlayer)))
    /\ board = callBoard

\* C7: with rows = LEN / COLS, turn returns OutOfBounds(Both) iff row >= rows
\* and col >= COLS, OutOfBounds(Row) iff only the row is out of range,
\* OutOfBounds(Col) iff only the column is, and no OutOfBounds error for a
\* position in range; an out-of-range position is never reported as Occupied.
C7_OutOfBoundsVariants ==
    callRes[1] # "NotCalled" =>
        LET row_out == callPos[1] >= Rows
            col_out == callPos[2] >= COLS
        IN  /\ callRes = Err(OutOfBounds("Both")) <=> (row_out /\ col_out)
            /\ callRes = Err(OutOfBounds("Row")) <=> (row_out /\ ~col_out)
            /\ callRes = Err(OutOfBounds("Col")) <=> (~row_out /\ col_out)
            /\ (~row_out /\ ~col_out) => callRes[2][1] # "OutOfBounds"
            /\ (row_out \/ col_out) => callRes # Err(OccupiedErr)

\* C7 witness: only the column is out of range, and the index the position
\* would convert to is that of an occupied cell
C7_Witness ==
    /\ callRes = Err(OutOfBounds("Col"))
    /\ callPos[1] < Rows
    /\ callPos[2] + COLS * callPos[1] \in DOMAIN board
    /\ board[callPos[2] + COLS * callPos[1]] # Empty

\* C8: a call of turn that returns Err leaves the board and the current
\* player unchanged and play_loop goes on, so the call that follows is made
\* by the same player on the same board, however many calls were rejected.
C8_RejectedTurnHasNoEffect ==
    /\ [](callRes[1] = "Err" =>
             /\ board = callBoard
             /\ player = callPlayer
             /\ pc = "playing"
             /\ turn = NextTurn)
    /\ [][callRes[1] = "Err" =>
             /\ callBoard' = callBoard
             /\ callPlayer' = callPlayer]_vars

\* C8 witness: O was rejected, on a board that already holds pieces, and is
\* still the player to move
C8_Witness ==
    /\ callRes[1] = "Err"
    /\ callPlayer = "O"
    /\ player = "O"
    /\ Count(board, Empty) < LEN
    /\ pc = "playing"

\* C9: a new board has current player X; turn toggles the player exactly when
\* it returns Ok(Next); in play_loop the number of X pieces minus the number
\* of O pieces is 0 or 1, and while the game is in progress the current
\* player is X iff the two numbers are equal.
C9_TurnsAlternate ==
    /\ (pc = "playing" /\ callRes[1] = "NotCalled") => player = "X"
    /\ callRes[1] \in {"Ok", "Err"} =>
          /\ player # callPlayer <=> callRes = Ok(NextTurn)
          /\ callRes = Ok(NextTurn) => player = toggle_player(callPlayer)
    /\ pc \in {"playing", "over"} =>
          Count(board, Occupied("X")) - Count(board, Occupied("O")) \in {0, 1}
    /\ (pc = "playing" /\ turn = NextTurn) =>
          (player = "X" <=> Count(board, Occupied("X")) = Count(board, Occupied("O")))

\* C9 witness: O has just moved and the turn came back to X
C9_Witness ==
    /\ pc = "playing"
    /\ callRes = Ok(NextTurn)
    /\ callPlayer = "O"
    /\ player = "X"
    /\ Count(board, Occupied("X")) = 2
    /\ Count(board, Occupied("O")) = 2

\* p holds a whole row, a whole column or, on a square board, a whole diagonal
HasLine(b, p) ==
    \/ \E r \in 0..(Rows - 1) : RowFull(b, p, r)
    \/ \E c \in 0..(COLS - 1) : ColFull(b, p, c)
    \/ is_squared /\ (PrimaryFull(b, p) \/ SecondaryFull(b, p))

C11_WinIsSound ==
    (callRes[1] = "Ok" /\ callRes[2][1] = "Win") =>
        /\ callRes[2][2] = callPlayer
        /\ callBoard[CellIndex(callPos)] = Empty
        /\ board[CellIndex(callPos)] = Occupied(PieceFrom(callPlayer))
        /\ \/ RowFull(board, callPlayer, callPos[1])
           \/ ColFull(board, callPlayer, callPos[2])
           \/ /\ COLS * COLS = LEN
              /\ \/ callPos[1] = callPos[2] /\ PrimaryFull(board, callPlayer)
                 \/ /\ callPos[1] + callPos[2] = COLS - 1
                    /\ SecondaryFull(board, callPlayer)

\* C12: on a square board with COLS >= 2, for every index idx of the board
\* with row = idx / COLS and col = idx % COLS: in_primary(idx) iff row = col,
\* in_secondary(idx) iff row + col = COLS - 1, and in_center(idx) iff the cell
\* lies on both diagonals.
C12_DiagonalMembership ==
    (pc = "playing" /\ COLS * COLS = LEN /\ COLS >= 2) =>
        \A idx \in DOMAIN board :
            /\ in_primary(idx) <=> RowOf(idx) = ColOf(idx)
            /\ in_secondary(idx) <=> RowOf(idx) + ColOf(idx) = COLS - 1
            /\ in_center(idx) <=>
                  (/\ RowOf(idx) = ColOf(idx)
                   /\ RowOf(idx) + ColOf(idx) = COLS - 1)

\* C13: on a board that is not square (COLS * COLS # LEN) turn returns Win(p)
\* only when the whole row or the whole column of the placed cell holds p's
\* pieces; pieces along a diagonal never yield a Win.
C13_NoDiagonalsUnlessSquare ==
    (/\ COLS * COLS # LEN
     /\ callRes[1] = "Ok" /\ callRes[2][1] = "Win") =>
        /\ callRes[2][2] = callPlayer
        /\ \/ RowFull(board, callPlayer, callPos[1])
           \/ ColFull(board, callPlayer, callPos[2])

\* C13 witness: on the board of 2 rows by 3 columns X holds (0,0) and (1,1),
\* the primary diagonal of its left 2x2 block, and wins only later, by column 0
C13_Witness ==
    /\ LEN = 6 /\ COLS = 3
    /\ callRes = Ok(Win("X"))
    /\ board[0] = Occupied("X") /\ board[4] = Occupied("X")
    /\ callBoard[0] = Occupied("X") /\ callBoard[4] = Occupied("X")
    /\ callPos = <<1, 0>>

\* C14: on every board that new accepts, while no turn has returned Win or
\* Draw some position is accepted by turn, so play_loop reaches Win or Draw
\* within LEN accepted moves; after the first Win or Draw play_loop has
\* exited and calls turn no more.
C14_EveryGameEnds ==
    /\ (pc = "playing" /\ turn = NextTurn) =>
          \E pos \in (0..LEN) \X (0..COLS) :
              turn_fn(board, player, pos).res[1] = "Ok"
    /\ pc \in {"playing", "over"} =>
          Count(board, Occupied("X")) + Count(board, Occupied("O")) <= LEN
    /\ (pc # "start" /\ turn # NextTurn) => pc = "over"

\* C16: on a square board, whenever turn returns Ok(Draw) no row, no column
\* and no diagonal of the full board is held by one player.
C16_DrawIsSound ==
    (COLS * COLS = LEN /\ callRes = Ok(Draw)) =>
        /\ ~HasLine(board, "X")
        /\ ~HasLine(board, "O")

\* the tokens of a line, each named by the index of its first character: the
\* maximal runs of characters other than spaces
TokenStarts(line) ==
    {i \in 1..Len(line) : line[i] # " " /\ (i = 1 \/ line[i - 1] = " ")}
TokenEnd(line, i) ==
    CHOOSE j \in i..Len(line) :
        /\ \A k \in i..j : line[k] # " "
        /\ j = Len(line) \/ line[j + 1] = " "
Token(line, i) == SubSeq(line, i, TokenEnd(line, i))

\* the token is a non-negative decimal integer: digits only
IsNumeral(tok) == tok # <<>> /\ \A k \in 1..Len(tok) : is_digit(tok[k])

\* the token is one usize::from_str_radix accepts: digits after an optional '+'
IsParsable(tok) ==
    \/ IsNumeral(tok)
    \/ Len(tok) >= 2 /\ tok[1] = "+" /\ IsNumeral(Tail(tok))

\* the starts of the parsable tokens, and the k-th of them from the left
ParsableStarts(line) == {i \in TokenStarts(line) : IsParsable(Token(line, i))}
KthStart(starts, k) ==
    CHOOSE i \in starts : Cardinality({j \in starts : j < i}) = k - 1
NumeralValue(tok) == digits_value(IF tok[1] = "+" THEN Tail(tok) ELSE tok, 0)

\* C15 as stated: player_input returns a position, and turn is called, only
\* for a line that consists of exactly two whitespace-separated non-negative
\* integers; every other line reprompts.
C15_OnlyExactlyTwoIntegers ==
    inputOut = "Return" =>
        /\ Cardinality(TokenStarts(input)) = 2
        /\ \A i \in TokenStarts(input) : IsNumeral(Token(input, i))

\* C15 as amended: player_input returns exactly when at least two tokens of
\* the line parse as usize, and returns the first two of them in order,
\* skipping every token that does not parse and ignoring what follows; with
\* one parsable token or none it prints its message and reprompts, and no
\* call of turn is made for that line.
C15_FirstTwoParsableTokens ==
    /\ [](inputOut \in {"Return", "NeedBoth", "CouldNot"} =>
             LET starts == ParsableStarts(input)
             IN  /\ inputOut = "Return" <=> Cardinality(starts) >= 2
                 /\ inputOut = "NeedBoth" <=> Cardinality(starts) = 1
                 /\ inputOut = "CouldNot" <=> Cardinality(starts) = 0
                 /\ inputOut = "Return" =>
                       callPos = <<NumeralValue(Token(input, KthStart(starts, 1))),
                                   NumeralValue(Token(input, KthStart(starts, 2)))>>)
    /\ [][inputOut' \in {"NeedBoth", "CouldNot"} =>
             UNCHANGED <<pc, board, player, turn,
                         callPos, callRes, callBoard, callPlayer>>]_vars

\* C15 witness: the line "x 1 11" was read; its first token is no integer,
\* and turn was called with (1, 11)
C15_Witness ==
    /\ input = <<"x", " ", "1", " ", "1", "1">>
    /\ inputOut = "Return"
    /\ callPos = <<1, 11>>
    /\ callRes = Err(OutOfBounds("Col"))

\* C17: a turn that returns Ok changes exactly one cell, the one at index
\* row * COLS + col, from Empty to the piece of the player who was current
\* when turn was called; an occupied cell keeps its piece in every later
\* state, and the number of empty cells goes down by one per accepted move
\* and never up.
C17_PiecesPermanentMovesLocal ==
    /\ [](Accepted =>
             LET idx == callPos[1] * COLS + callPos[2]
             IN  /\ idx \in DOMAIN callBoard
                 /\ callBoard[idx] = Empty
                 /\ board = [callBoard EXCEPT ![idx] = Occupied(PieceFrom(callPlayer))]
                 /\ Count(board, Empty) = Count(callBoard, Empty) - 1)
    /\ [][\A n \in DOMAIN board : board[n] # Empty => board'[n] = board[n]]_vars
    /\ [][pc = "playing" =>
             \/ board' = board
             \/ /\ callRes'[1] = "Ok"
                /\ Count(board', Empty) = Count(board, Empty) - 1]_vars

\* C17 witness: O's second piece went onto the 3x3 board, next to the three
\* pieces already there
C17_Witness ==
    /\ LEN = 9 /\ COLS = 3
    /\ Accepted
    /\ callPlayer = "O"
    /\ Count(callBoard, Empty) = 6
    /\ Count(board, Empty) = 5
    /\ Count(board, Occupied("O")) = 2

\* C18: turn never panics on a board that new accepts, also with COLS = 1 or
\* LEN not a multiple of COLS: a position that passes the bounds check maps
\* to the index row * COLS + col < LEN, different positions map to different
\* indices, the row slice of check_horizontal stays within the board, and
\* the modulo by COLS - 1 of in_secondary is never evaluated with COLS = 1.
C18_TurnNeverPanics ==
    /\ callRes # Panic
    /\ pc # "panicked"
    /\ (callRes[1] = "Ok" \/ callRes = Err(OccupiedErr)) =>
          LET lin == convert_to_linear(callBoard, callPos)
          IN  /\ lin.ok
              /\ lin.idx = callPos[1] * COLS + callPos[2]
              /\ lin.idx < LEN
              /\ ~horizontal_panics(lin.idx)
              /\ \A q \in Positions :
                    LET linq == convert_to_linear(callBoard, q)
                    IN  (linq.ok /\ linq.idx = lin.idx) => q = callPos
    /\ Accepted => ~check_win_panics(board, callPlayer, CellIndex(callPos))

\* C18 witness: the only cell of the 1x1 board was taken; the row test wins
\* before check_diagonals is reached
C18_Witness ==
    /\ LEN = 1 /\ COLS = 1
    /\ Accepted
    /\ callPos = <<0, 0>>
    /\ callRes = Ok(Win("X"))
====
